---------------------------- MODULE Spec2Model ----------------------------
(***************************************************************************)
(* A model of ngraph::pass::Serialize (transformations/serialize.cpp):     *)
(* the constructor, run_on_function and ngfunction_2_irv10 with its        *)
(* helpers.  Text (paths, friendly names, numbers rendered by              *)
(* std::to_string) is a sequence of one-character strings; type names and  *)
(* attribute names are TLA+ strings.                                       *)
(***************************************************************************)
EXTENDS Integers, Sequences, FiniteSets, TLC

VARIABLES
    \* ---- arguments of the constructor and of run_on_function (inputs) ----
    xmlPath,          \* constructor argument
    binPath,          \* constructor argument
    version,          \* constructor argument
    custom_opsets,    \* constructor argument: registry key -> set of type names
    builtin_opsets,   \* get_opset1() .. get_opset5(): sequence of sets of type names
    nodes,            \* node identity -> the node (type, name, inputs, attributes, ...)
    f_ops,            \* f.get_ordered_ops() of the function being serialized
    unwritable,       \* the paths std::ofstream cannot open
    \* ---- state of the pass object and of the file system ----
    m_xmlPath, m_binPath, m_version, m_custom_opsets,
    opened,           \* paths opened for writing so far, in order (each is created/truncated)
    xml_saved,        \* TRUE once xml_doc.save(xml_file) has run
    \* ---- state of the graph that the call mutates ----
    shape,            \* node identity -> sequence of output partial shapes
    pre_shape,        \* the value of shape when the call started
    \* ---- locals of ngfunction_2_irv10 ----
    pc,               \* position of the call
    exec_graph,
    layer_ids,        \* node identity -> id
    unique_names,     \* std::unordered_set<std::string>
    has_dynamic_shapes,
    resolved,         \* TRUE once resolve_dynamic_shapes(f) has returned
    k,                \* number of nodes the layer loop has finished
    layers,           \* the <layer> records appended so far
    bin_data,         \* bytes written to the binary stream
    discovered,       \* create_edge_mapping's edges before std::sort
    edges             \* the <edge> records

vars == << xmlPath, binPath, version, custom_opsets, builtin_opsets, nodes, f_ops,
           unwritable,
           m_xmlPath, m_binPath, m_version, m_custom_opsets, opened, xml_saved,
           shape, pre_shape, pc, exec_graph, layer_ids, unique_names,
           has_dynamic_shapes, resolved, k, layers, bin_data, discovered, edges >>

inputs == << xmlPath, binPath, version, custom_opsets, builtin_opsets, nodes, f_ops,
            unwritable >>

----------------------------------------------------------------------------
(* Bounds of the model *)

MaxNodes == 4

MaxNameLen == 2

MaxNamed == 3

MaxRank == 2

MaxBufLen == 2

----------------------------------------------------------------------------
(* Text helpers *)

Range(s) == { s[i] : i \in 1..Len(s) }

Str1(S) == { <<c>> : c \in S }

RECURSIVE StringsUpTo(_, _)
\* all non-empty texts over alphabet A of length at most n
StringsUpTo(A, n) ==
    IF n = 0 THEN {}
    ELSE LET shorter == StringsUpTo(A, n - 1)
         IN  Str1(A) \cup shorter \cup { Append(s, c) : s \in shorter, c \in A }

Digit(d) == CASE d = 0 -> "0" [] d = 1 -> "1" [] d = 2 -> "2" [] d = 3 -> "3"
              [] d = 4 -> "4" [] d = 5 -> "5" [] d = 6 -> "6" [] d = 7 -> "7"
              [] d = 8 -> "8" [] d = 9 -> "9"

RECURSIVE to_string(_)
\* std::to_string of a non-negative int: its decimal digits
to_string(n) == IF n < 10 THEN << Digit(n) >>
                ELSE Append(to_string(n \div 10), Digit(n % 10))


Ord(c) == CASE c = "." -> 0 [] c = "0" -> 1 [] c = "1" -> 2 [] c = "a" -> 3
            [] c = "b" -> 4 [] c = "c" -> 5 [] OTHER -> 6

RECURSIVE StrLess(_, _)
\* std::less<std::string>: lexicographic order, the order of a std::map's keys
StrLess(a, b) ==
    IF Len(b) = 0 THEN FALSE
    ELSE IF Len(a) = 0 THEN TRUE
    ELSE IF Ord(Head(a)) # Ord(Head(b)) THEN Ord(Head(a)) < Ord(Head(b))
    ELSE StrLess(Tail(a), Tail(b))

----------------------------------------------------------------------------
(* Type names and precisions *)

translate_type_name(name) ==
    CASE name = "Constant" -> "Const"
      [] name = "Relu"     -> "ReLU"
      [] name = "Softmax"  -> "SoftMax"
      [] OTHER             -> name

\* get_output_precision_name: "" stands for the NGRAPH_CHECK(false) of the default branch
get_output_precision_name(elem_type) ==
    CASE elem_type = "undefined" -> "UNSPECIFIED"
      [] elem_type = "f16"     -> "FP16"
      [] elem_type = "f32"     -> "FP32"
      [] elem_type = "bf16"    -> "BF16"
      [] elem_type = "f64"     -> "FP64"
      [] elem_type = "i8"      -> "I8"
      [] elem_type = "i16"     -> "I16"
      [] elem_type = "i32"     -> "I32"
      [] elem_type = "i64"     -> "I64"
      [] elem_type = "u8"      -> "U8"
      [] elem_type = "u16"     -> "U16"
      [] elem_type = "u32"     -> "U32"
      [] elem_type = "u64"     -> "U64"
      [] elem_type = "u1"      -> "BIN"
      [] elem_type = "boolean" -> "BOOL"
      [] OTHER                 -> ""

----------------------------------------------------------------------------
(* Op-set lookup *)

NumBuiltinOpsets == 5

OpsetPrefix == << "o", "p", "s", "e", "t" >>

Experimental == << "e", "x", "p", "e", "r", "i", "m", "e", "n", "t", "a", "l" >>

\* OpSet::contains_op_type
contains_op_type(opset, type) == type \in opset

RECURSIVE BuiltinLoop(_, _, _)
\* the loop over opsets[idx], idx = 0 .. 4; <<>> when it falls through
BuiltinLoop(opsets, type, idx) ==
    IF idx >= NumBuiltinOpsets THEN << >>
    ELSE IF contains_op_type(opsets[idx + 1], type)
         THEN OpsetPrefix \o to_string(idx + 1)
         ELSE BuiltinLoop(opsets, type, idx + 1)

\* the keys of a std::map that the range-for has not visited yet, smallest first
FirstKey(keys) == CHOOSE a \in keys : \A b \in keys \ {a} : StrLess(a, b)

RECURSIVE CustomLoop(_, _, _)
CustomLoop(custom, type, keys) ==
    IF keys = {} THEN Experimental
    ELSE LET name == FirstKey(keys)
         IN  IF contains_op_type(custom[name], type) THEN name
             ELSE CustomLoop(custom, type, keys \ {name})

\* get_opset_name that consults the custom registry before the built-in sets
get_opset_name_custom_first(opsets, custom, type) ==
    LET name == CustomLoop(custom, type, DOMAIN custom)
    IN  IF name # Experimental THEN name
        ELSE IF BuiltinLoop(opsets, type, 0) # << >> THEN BuiltinLoop(opsets, type, 0)
        ELSE Experimental

get_opset_name(opsets, custom, type) ==
    LET builtin == BuiltinLoop(opsets, type, 0)
    IN  IF builtin # << >> THEN builtin
        ELSE CustomLoop(custom, type, DOMAIN custom)

----------------------------------------------------------------------------
(* Unique names *)

RECURSIVE generate_unique_name(_, _, _)
generate_unique_name(names, base_name, suffix) ==
    LET new_name == base_name \o to_string(suffix)
    IN  IF new_name \notin names THEN new_name
        ELSE generate_unique_name(names, base_name, suffix + 1)

\* get_node_unique_name with the first suffix tried being 1
get_node_unique_name_from_one(names, friendly_name) ==
    IF friendly_name \in names THEN generate_unique_name(names, friendly_name, 1)
    ELSE friendly_name

\* get_node_unique_name: the returned name; the caller's set gains it
get_node_unique_name(names, friendly_name) ==
    IF friendly_name \in names THEN generate_unique_name(names, friendly_name, 0)
    ELSE friendly_name

----------------------------------------------------------------------------
(* Paths *)

XmlExt == << ".", "x", "m", "l" >>

BinExt == << "b", "i", "n" >>

Npos == -1

\* std::string::rfind(ext): the last 0-based position where ext occurs, or npos.
\* npos is SIZE_MAX in the code; valid_xml_path compares it with size() - 4 only
\* when size() > 4, so any value that is no position stands for it.
rfind(path, ext) ==
    LET hits == { p \in 0..(Len(path) - Len(ext)) :
                     SubSeq(path, p + 1, p + Len(ext)) = ext }
    IN  IF hits = {} THEN Npos
        ELSE CHOOSE p \in hits : \A q \in hits : q <= p

\* valid_xml_path: throws |-> TRUE when one of the two NGRAPH_CHECKs fails
valid_xml_path(path) ==
    IF ~(Len(path) > 4) THEN [throws |-> TRUE, value |-> path]
    ELSE LET has_xml_extension == rfind(path, XmlExt) = Len(path) - Len(XmlExt)
         IN  [throws |-> ~has_xml_extension, value |-> path]

\* provide_bin_path (called only after valid_xml_path(xmlPath) returned)
provide_bin_path(xml, bin) ==
    IF bin # << >> THEN bin
    ELSE SubSeq(xml, 1, Len(xml) - Len(BinExt)) \o BinExt

----------------------------------------------------------------------------
(* Partial shapes.  A dimension is an interval [lo, hi]; hi = Unbounded      *)
(* stands for Interval::s_max, which get_max_length reports as -1.  A shape  *)
(* has a dynamic rank or a sequence of dimensions.                           *)

Unbounded == -1

\* Dimension(value_type): -1 makes the fully dynamic dimension
Dimension(v) == IF v = Unbounded THEN [lo |-> 0, hi |-> Unbounded] ELSE [lo |-> v, hi |-> v]

DimRange(lo, hi) == [lo |-> lo, hi |-> hi]

dim_is_static(d) == d.hi # Unbounded /\ d.lo = d.hi

dim_is_dynamic(d) == ~dim_is_static(d)

\* Dimension::get_max_length: -1 when the dimension has no upper bound
get_max_length(d) == d.hi

\* Dimension::get_length of a static dimension
get_length(d) == d.lo

DynamicRank == [rank_dynamic |-> TRUE, dims |-> << >>]

ShapeOf(dims) == [rank_dynamic |-> FALSE, dims |-> dims]

shape_is_static(s) == ~s.rank_dynamic /\ \A i \in 1..Len(s.dims) : dim_is_static(s.dims[i])

shape_is_dynamic(s) == ~shape_is_static(s)

\* dynamic_to_static taking the lower end of a dynamic dimension's interval
dynamic_to_static_min(s) ==
    IF shape_is_static(s) \/ s.rank_dynamic THEN s
    ELSE ShapeOf([i \in 1..Len(s.dims) |->
                    IF dim_is_dynamic(s.dims[i]) THEN Dimension(s.dims[i].lo) ELSE s.dims[i]])

\* the lambda dynamic_to_static of resolve_dynamic_shapes
dynamic_to_static(s) ==
    IF shape_is_static(s) \/ s.rank_dynamic THEN s
    ELSE ShapeOf([i \in 1..Len(s.dims) |->
                    IF dim_is_dynamic(s.dims[i])
                    THEN Dimension(get_max_length(s.dims[i]))
                    ELSE s.dims[i]])

----------------------------------------------------------------------------
(* The graph.  nodes[n] is a record                                          *)
(*   type          the node's type name (get_type_name)                      *)
(*   friendly_name get_friendly_name                                         *)
(*   inputs        per input port, the source output [node, index]           *)
(*   nout          get_output_size                                           *)
(*   elem_type     element type of the outputs                               *)
(*   attrs         what visit_attributes hands to the visitor, in order      *)
(*   visitable     what visit_attributes returns                             *)
(*   rt_info       get_rt_info as a sequence in key order                    *)
(*   declared      the shape the node's own attributes fix (Parameter,       *)
(*                 Constant) or its data-dependent output shape (NonZero)    *)
(*   can_fold      whether constant_fold succeeds on the node's clone        *)
(*   fold_shape    the shape of the constants folding produces               *)
(*   body          ordered ops of the nested function of a SubGraphOp        *)

is_parameter(n) == nodes[n].type = "Parameter"

is_output(n) == nodes[n].type = "Result"

is_subgraph_op(n) == nodes[n].body # << >>

get_input_size(n) == Len(nodes[n].inputs)

get_output_size(n) == nodes[n].nout

\* the partial shape an input port sees: that of its source output
input_partial_shape(sh, n, i) == sh[nodes[n].inputs[i].node][nodes[n].inputs[i].index + 1]

\* Node::validate_and_infer_types: the output shapes the node infers
infer_outputs(sh, n) ==
    IF get_input_size(n) = 0 \/ nodes[n].type = "NonZero"
    THEN [o \in 1..nodes[n].nout |-> nodes[n].declared]
    ELSE [o \in 1..nodes[n].nout |-> input_partial_shape(sh, n, 1)]

validate_and_infer_types(sh, n) == [sh EXCEPT ![n] = infer_outputs(sh, n)]

RECURSIVE validate_nodes_and_infer_types(_, _)
\* Function::validate_nodes_and_infer_types over the ordered ops
validate_nodes_and_infer_types(sh, ops) ==
    IF ops = << >> THEN sh
    ELSE validate_nodes_and_infer_types(validate_and_infer_types(sh, Head(ops)), Tail(ops))

\* Node::is_dynamic
is_dynamic(sh, n) == \E o \in 1..nodes[n].nout : shape_is_dynamic(sh[n][o])

all_static(sh, ops) == \A i \in 1..Len(ops) : ~is_dynamic(sh, ops[i])

\* Node::constant_fold on the clone
constant_fold(n) == nodes[n].can_fold

\* the two branches of the loop body after constant_fold, for one op:
\* st.sh are the shapes of the function, st.csh those of its clone
fold_or_bound(st, op) ==
    IF ~constant_fold(op)
    THEN LET cs == [o \in 1..nodes[op].nout |-> dynamic_to_static(st.csh[op][o])]
         IN  [sh |-> [st.sh EXCEPT ![op] = cs], csh |-> [st.csh EXCEPT ![op] = cs]]
    ELSE LET rs == [o \in 1..nodes[op].nout |-> nodes[op].fold_shape]
         IN  [sh |-> [st.sh EXCEPT ![op] = rs], csh |-> [st.csh EXCEPT ![op] = rs]]

RECURSIVE resolve_dynamic_shapes(_, _)
RECURSIVE resolve_loop(_, _, _)

\* the for loop of resolve_dynamic_shapes from index id (1-based) on
resolve_loop(st, ops, id) ==
    IF id > Len(ops) THEN st
    ELSE LET op   == ops[id]
             sub  == IF is_subgraph_op(op)
                     THEN resolve_dynamic_shapes(st.sh, nodes[op].body).sh
                     ELSE st.sh
             inf  == [sh  |-> validate_and_infer_types(sub, op),
                      csh |-> validate_and_infer_types(st.csh, op)]
         IN  resolve_loop(fold_or_bound(inf, op), ops, id + 1)

\* resolve_dynamic_shapes(f): ret is the returned bool, sh the shapes afterwards
resolve_dynamic_shapes(sh, ops) ==
    IF all_static(sh, ops) THEN [ret |-> FALSE, sh |-> sh]
    ELSE [ret |-> TRUE, sh |-> resolve_loop([sh |-> sh, csh |-> sh], ops, 1).sh]

----------------------------------------------------------------------------
(* Attributes: XmlSerializer and visit_exec_graph_node.  An attribute is a   *)
(* record [name, kind, text, elems, buf]: kind names the ValueAccessor the   *)
(* visitor gets ("void", "buffer" for a void* accessor that is an            *)
(* AlignedBuffer adapter, "voidptr" for any other void* accessor, "bool",    *)
(* "string", "int64", "double", "vector"); text is the rendered scalar,      *)
(* elems the rendered elements of a vector, buf the bytes of a buffer.       *)

Field(name, value) == [name |-> name, value |-> value]

RECURSIVE join(_, _)
\* join(c, glue)
join(c, glue) ==
    IF c = << >> THEN << >>
    ELSE IF Len(c) = 1 THEN c[1]
    ELSE c[1] \o glue \o join(Tail(c), glue)

Glue == << ",", " " >>

\* on_adapter whose void* overload reads tellp() after the write
on_adapter_offset_after_write(vs, a) ==
    CASE a.kind = "void" -> vs
      [] a.kind \in {"buffer", "voidptr"} ->
            IF a.name = "value" /\ translate_type_name(vs.type_name) = "Const"
                                /\ a.kind = "buffer"
            THEN LET size   == Len(a.buf)
                     offset == Len(vs.bin) + Len(a.buf)
                 IN  [vs EXCEPT !.data = vs.data \o << Field("offset", to_string(offset)),
                                                       Field("size", to_string(size)) >>,
                                !.bin  = vs.bin \o a.buf]
            ELSE vs
      [] a.kind = "string" ->
            IF vs.type_name = "GenericIE" /\ a.name = "__generic_ie_type__"
            THEN [vs EXCEPT !.type_name = a.text]
            ELSE [vs EXCEPT !.data = Append(vs.data, Field(a.name, a.text))]
      [] a.kind \in {"bool", "int64", "double"} ->
            [vs EXCEPT !.data = Append(vs.data, Field(a.name, a.text))]
      [] a.kind = "vector" ->
            [vs EXCEPT !.data = Append(vs.data, Field(a.name, join(a.elems, Glue)))]

\* XmlSerializer::on_adapter, all overloads: vs = [data, type_name, bin]
on_adapter(vs, a) ==
    CASE a.kind = "void" -> vs
      [] a.kind \in {"buffer", "voidptr"} ->
            IF a.name = "value" /\ translate_type_name(vs.type_name) = "Const"
                                /\ a.kind = "buffer"
            THEN LET size   == Len(a.buf)
                     offset == Len(vs.bin)
                 IN  [vs EXCEPT !.data = vs.data \o << Field("offset", to_string(offset)),
                                                       Field("size", to_string(size)) >>,
                                !.bin  = vs.bin \o a.buf]
            ELSE vs
      [] a.kind = "string" ->
            IF vs.type_name = "GenericIE" /\ a.name = "__generic_ie_type__"
            THEN [vs EXCEPT !.type_name = a.text]
            ELSE [vs EXCEPT !.data = Append(vs.data, Field(a.name, a.text))]
      [] a.kind \in {"bool", "int64", "double"} ->
            [vs EXCEPT !.data = Append(vs.data, Field(a.name, a.text))]
      [] a.kind = "vector" ->
            [vs EXCEPT !.data = Append(vs.data, Field(a.name, join(a.elems, Glue)))]

RECURSIVE visit_attributes(_, _)
\* Node::visit_attributes(visitor): the visitor sees the attributes in order
visit_attributes(vs, attrs) ==
    IF attrs = << >> THEN vs
    ELSE visit_attributes(on_adapter(vs, Head(attrs)), Tail(attrs))

RECURSIVE visit_exec_graph_node(_, _)
\* visit_exec_graph_node: es = [data, type_name]; rt is the rt_info map in key
\* order, each entry [key, is_string, text]
visit_exec_graph_node(es, rt) ==
    IF rt = << >> THEN es
    ELSE LET param == Head(rt)
             nxt   == IF ~param.is_string THEN es
                      ELSE IF param.key = "layerType"
                           THEN [es EXCEPT !.type_name = param.text]
                           ELSE [es EXCEPT !.data = Append(es.data, Field(param.key, param.text))]
         IN  visit_exec_graph_node(nxt, Tail(rt))

\* is_exec_graph
is_exec_graph(ops) ==
    \E i \in 1..Len(ops) :
        \E j \in 1..Len(nodes[ops[i]].rt_info) : nodes[ops[i]].rt_info[j].key = "execTimeMcs"

----------------------------------------------------------------------------
(* Layer ids and edges *)

\* create_layer_ids with ++id in place of id++
create_layer_ids_preincrement(ops) ==
    [n \in Range(ops) |-> CHOOSE i \in 1..Len(ops) : ops[i] = n]

\* create_layer_ids: id++ for each node of get_ordered_ops
create_layer_ids(ops) == [n \in Range(ops) |-> (CHOOSE i \in 1..Len(ops) : ops[i] = n) - 1]

\* make_edge with from_port = source_output.get_index() alone
make_edge_no_offset(ids, n, i) ==
    LET source_output == nodes[n].inputs[i]
    IN  [from_layer |-> ids[source_output.node],
         from_port  |-> source_output.index,
         to_layer   |-> ids[n],
         to_port    |-> i - 1]

\* the Edge built for input port i (0-based index i - 1) of node n
make_edge(ids, n, i) ==
    LET source_output == nodes[n].inputs[i]
        source_node   == source_output.node
    IN  [from_layer |-> ids[source_node],
         from_port  |-> get_input_size(source_node) + source_output.index,
         to_layer   |-> ids[n],
         to_port    |-> i - 1]

RECURSIVE collect_edges(_, _)
\* the two nested loops of create_edge_mapping: edges in push_back order
collect_edges(ids, ops) ==
    IF ops = << >> THEN << >>
    ELSE LET n == Head(ops)
         IN  (IF is_parameter(n) THEN << >>
              ELSE [i \in 1..get_input_size(n) |-> make_edge(ids, n, i)])
             \o collect_edges(ids, Tail(ops))

\* NGRAPH_CHECK(layer_ids.find(..) != end) of create_edge_mapping
edge_ids_known(ids, ops) ==
    \A x \in 1..Len(ops) :
        ~is_parameter(ops[x]) =>
            \A i \in 1..get_input_size(ops[x]) :
                /\ nodes[ops[x]].inputs[i].node \in DOMAIN ids
                /\ ops[x] \in DOMAIN ids

RECURSIVE SortedOrders(_, _)
\* every arrangement of the positions S of es that is ascending in from_layer
SortedOrders(es, S) ==
    IF S = {} THEN { << >> }
    ELSE UNION { { << es[i] >> \o rest : rest \in SortedOrders(es, S \ {i}) } :
                 i \in { j \in S : \A h \in S : es[j].from_layer <= es[h].from_layer } }

\* create_edge_mapping without its std::sort
std_sort_skipped(es) == { es }

\* std::sort with the comparator a.from_layer < b.from_layer: std::sort does not
\* keep the order of equivalent elements, so every ascending arrangement is a
\* possible result
std_sort(es) == SortedOrders(es, 1..Len(es))

----------------------------------------------------------------------------
(* One iteration of the layer loop of ngfunction_2_irv10 *)

Min(S) == CHOOSE x \in S : \A y \in S : x <= y

\* the <dim> children of a port: std::to_string of each dimension of get_shape()
dims_text(s) == [j \in 1..Len(s.dims) |-> to_string(get_length(s.dims[j]))]

\* layer_data whose execution-graph branch writes "layerType" as a field and
\* keeps the node's own type name
layer_data_layerType_as_field(n, exec, bin) ==
    IF exec
    THEN LET rt == SelectSeq(nodes[n].rt_info, LAMBDA p : p.is_string)
         IN  [data |-> [j \in 1..Len(rt) |-> Field(rt[j].key, rt[j].text)],
              type_name |-> nodes[n].type, bin |-> bin, throws |-> FALSE]
    ELSE IF ~nodes[n].visitable
         THEN [data |-> << >>, type_name |-> nodes[n].type, bin |-> bin, throws |-> TRUE]
         ELSE LET vs == visit_attributes([data |-> << >>, type_name |-> nodes[n].type,
                                          bin |-> bin], nodes[n].attrs)
              IN  [data |-> vs.data, type_name |-> vs.type_name, bin |-> vs.bin,
                   throws |-> FALSE]

\* <layers/data>: [data, type_name, bin, throws] after the attributes of node n
layer_data(n, exec, bin) ==
    IF exec
    THEN LET es == visit_exec_graph_node([data |-> << >>, type_name |-> nodes[n].type],
                                         nodes[n].rt_info)
         IN  [data |-> es.data, type_name |-> es.type_name, bin |-> bin, throws |-> FALSE]
    ELSE IF ~nodes[n].visitable
         THEN [data |-> << >>, type_name |-> nodes[n].type, bin |-> bin, throws |-> TRUE]
         ELSE LET vs == visit_attributes([data |-> << >>, type_name |-> nodes[n].type,
                                          bin |-> bin], nodes[n].attrs)
              IN  [data |-> vs.data, type_name |-> vs.type_name, bin |-> vs.bin,
                   throws |-> FALSE]

\* <layers/input>: the ports appended before the loop ends or a NGRAPH_CHECK fails
input_ports(n, sh) ==
    LET bad   == { i \in 1..get_input_size(n) : ~shape_is_static(input_partial_shape(sh, n, i)) }
        count == IF bad = {} THEN get_input_size(n) ELSE Min(bad) - 1
    IN  [ports  |-> [i \in 1..count |->
                        [id |-> i - 1, dims |-> dims_text(input_partial_shape(sh, n, i))]],
         throws |-> bad # {}]

\* <layers/output>: port ids continue the counter of the input ports
output_ports(n, sh) ==
    LET prec  == get_output_precision_name(nodes[n].elem_type)
        bad   == { o \in 1..get_output_size(n) : ~shape_is_static(sh[n][o]) \/ prec = "" }
        count == IF bad = {} THEN get_output_size(n) ELSE Min(bad) - 1
    IN  [ports  |-> [o \in 1..count |->
                        [id |-> get_input_size(n) + o - 1, precision |-> prec,
                         dims |-> dims_text(sh[n][o])]],
         throws |-> bad # {}]

\* the body of the for loop over f.get_ordered_ops() for node n:
\* the <layer> built, the name set and binary stream afterwards, and whether a
\* NGRAPH_CHECK failed on the way
emit_layer(n, ids, names, bin, sh, exec) ==
    LET name    == get_node_unique_name(names, nodes[n].friendly_name)
        ver     == IF exec THEN << >>
                   ELSE get_opset_name(builtin_opsets, m_custom_opsets, nodes[n].type)
        d       == layer_data(n, exec, bin)
        has_in  == ~d.throws /\ get_input_size(n) > 0
        ins     == IF has_in THEN input_ports(n, sh) ELSE [ports |-> << >>, throws |-> FALSE]
        has_out == ~d.throws /\ ~ins.throws /\ get_output_size(n) > 0 /\ ~is_output(n)
        outs    == IF has_out THEN output_ports(n, sh) ELSE [ports |-> << >>, throws |-> FALSE]
    IN  [layer  |-> [id          |-> ids[n],
                     name        |-> name,
                     type        |-> IF d.throws THEN "" ELSE translate_type_name(d.type_name),
                     has_version |-> ~exec,
                     version     |-> ver,
                     data        |-> d.data,
                     has_input   |-> has_in,
                     input       |-> ins.ports,
                     has_output  |-> has_out,
                     output      |-> outs.ports],
         names  |-> names \cup {name},
         bin    |-> d.bin,
         throws |-> n \notin DOMAIN ids \/ d.throws \/ ins.throws \/ outs.throws]

----------------------------------------------------------------------------
(* The operations *)

IR_V10 == 10

pass_state == << m_xmlPath, m_binPath, m_version, m_custom_opsets >>

irv10_locals == << exec_graph, layer_ids, unique_names, has_dynamic_shapes, resolved, k,
                   layers, bin_data, discovered, edges >>

\* pass::Serialize::Serialize: the member initialisers run in order, and the
\* first one throws when valid_xml_path does
Construct ==
    /\ pc = "new"
    /\ LET v == valid_xml_path(xmlPath)
       IN  IF v.throws
           THEN /\ pc' = "ctor_failed"
                /\ UNCHANGED pass_state
           ELSE /\ m_xmlPath' = v.value
                /\ m_binPath' = provide_bin_path(xmlPath, binPath)
                /\ m_version' = version
                /\ m_custom_opsets' = custom_opsets
                /\ pc' = "constructed"
    /\ UNCHANGED << inputs, opened, xml_saved, shape, pre_shape, irv10_locals >>

\* run_on_function, lines 488-490: the binary stream is opened
OpenBin ==
    /\ pc = "constructed"
    /\ IF m_binPath \in unwritable
       THEN pc' = "failed" /\ UNCHANGED opened
       ELSE pc' = "bin_open" /\ opened' = Append(opened, m_binPath)
    /\ UNCHANGED << inputs, pass_state, xml_saved, shape, pre_shape, irv10_locals >>

\* run_on_function's switch on m_version and ngfunction_2_irv10, lines 382-391
BeginIr ==
    /\ pc = "bin_open"
    /\ IF m_version # IR_V10
       THEN /\ pc' = "failed"
            /\ UNCHANGED << exec_graph, layer_ids, unique_names >>
       ELSE /\ exec_graph' = is_exec_graph(f_ops)
            /\ layer_ids' = create_layer_ids(f_ops)
            /\ unique_names' = {}
            /\ pc' = "resolve"
    /\ UNCHANGED << inputs, pass_state, opened, xml_saved, shape, pre_shape,
                    has_dynamic_shapes, resolved, k, layers, bin_data, discovered, edges >>

\* ngfunction_2_irv10, line 393
Resolve ==
    /\ pc = "resolve"
    /\ LET r == resolve_dynamic_shapes(shape, f_ops)
       IN  /\ has_dynamic_shapes' = r.ret
           /\ shape' = r.sh
    /\ resolved' = TRUE
    /\ pc' = "layers"
    /\ UNCHANGED << inputs, pass_state, opened, xml_saved, pre_shape, exec_graph, layer_ids,
                    unique_names, k, layers, bin_data, discovered, edges >>

\* ngfunction_2_irv10, lines 395-465: one iteration of the layer loop
EmitLayer ==
    /\ pc = "layers"
    /\ k < Len(f_ops)
    /\ LET e == emit_layer(f_ops[k + 1], layer_ids, unique_names, bin_data, shape, exec_graph)
       IN  /\ layers' = Append(layers, e.layer)
           /\ unique_names' = e.names
           /\ bin_data' = e.bin
           /\ IF e.throws THEN pc' = "failed" /\ k' = k
                          ELSE pc' = pc /\ k' = k + 1
    /\ UNCHANGED << inputs, pass_state, opened, xml_saved, shape, pre_shape, exec_graph,
                    layer_ids, has_dynamic_shapes, resolved, discovered, edges >>

\* ngfunction_2_irv10, lines 466-479: the edges, then the shapes are moved back
FinishIr ==
    /\ pc = "layers"
    /\ k = Len(f_ops)
    /\ IF ~edge_ids_known(layer_ids, f_ops)
       THEN pc' = "failed" /\ UNCHANGED << discovered, edges, shape >>
       ELSE /\ discovered' = collect_edges(layer_ids, f_ops)
            /\ edges' \in std_sort(discovered')
            /\ shape' = IF has_dynamic_shapes
                        THEN validate_nodes_and_infer_types(shape, f_ops)
                        ELSE shape
            /\ pc' = "irv10_done"
    /\ UNCHANGED << inputs, pass_state, opened, xml_saved, pre_shape, exec_graph, layer_ids,
                    unique_names, has_dynamic_shapes, resolved, k, layers, bin_data >>

\* run_on_function, lines 500-508: the xml file is created and the document saved
SaveXml ==
    /\ pc = "irv10_done"
    /\ IF m_xmlPath \in unwritable
       THEN pc' = "failed" /\ UNCHANGED << opened, xml_saved >>
       ELSE /\ opened' = Append(opened, m_xmlPath)
            /\ xml_saved' = TRUE
            /\ pc' = "done"
    /\ UNCHANGED << inputs, pass_state, shape, pre_shape, irv10_locals >>

Next == Construct \/ OpenBin \/ BeginIr \/ Resolve \/ EmitLayer \/ FinishIr \/ SaveXml

----------------------------------------------------------------------------
(* Initial states: the arguments of one construction and one call.  Each     *)
(* family below varies some of the arguments and fixes the others.           *)

Attr(name, kind, text, elems, buf) ==
    [name |-> name, kind |-> kind, text |-> text, elems |-> elems, buf |-> buf]

F32 == << "f", "3", "2" >>

StaticShape == ShapeOf(<< Dimension(3) >>)

ConstAttrs(buf) ==
    << Attr("element_type", "string", F32, << >>, << >>),
       Attr("shape", "vector", << >>, << <<"3">> >>, << >>),
       Attr("value", "buffer", << >>, << >>, buf) >>

ParamAttrs ==
    << Attr("shape", "vector", << >>, << <<"3">> >>, << >>),
       Attr("element_type", "string", F32, << >>, << >>) >>

DefaultAttrs(type) ==
    CASE type = "Constant"  -> ConstAttrs(<< 7 >>)
      [] type = "Parameter" -> ParamAttrs
      [] type = "Split"     -> << Attr("num_splits", "int64", << "2" >>, << >>, << >>) >>
      [] OTHER              -> << >>

\* a node with the given connectivity and everything else at its default
MkNode(type, name, ins, nout, declared) ==
    [type |-> type, friendly_name |-> name, inputs |-> ins, nout |-> nout,
     elem_type |-> "f32", attrs |-> DefaultAttrs(type), visitable |-> TRUE,
     rt_info |-> << >>, declared |-> declared, can_fold |-> FALSE,
     fold_shape |-> StaticShape, body |-> << >>]

In(n, i) == [node |-> n, index |-> i]

AXml == << "a", ".", "x", "m", "l" >>

BaseTypes == {"Parameter", "Constant", "Relu", "Add", "Split", "Result", "TensorIterator"}

DefaultBuiltin ==
    << BaseTypes, BaseTypes, BaseTypes \cup {"NonZero"}, BaseTypes \cup {"NonZero"},
       BaseTypes \cup {"NonZero"} >>

NoCustom == [key \in {} |-> {}]

RECURSIVE SeqConcat(_)
SeqConcat(ss) == IF ss = << >> THEN << >> ELSE Head(ss) \o SeqConcat(Tail(ss))

\* the shapes a graph has once every node has inferred its outputs, nested
\* functions first: the state in which a caller hands a function to the pass
NaturalShapes(ops) ==
    LET bodies == SeqConcat([i \in 1..Len(ops) |-> nodes[ops[i]].body])
        blank  == [n \in DOMAIN nodes |-> [o \in 1..nodes[n].nout |-> DynamicRank]]
    IN  validate_nodes_and_infer_types(blank, bodies \o ops)

InitCall(xp, bp, ver, cust, built, nds, ops, unw) ==
    /\ xmlPath = xp
    /\ binPath = bp
    /\ version = ver
    /\ custom_opsets = cust
    /\ builtin_opsets = built
    /\ nodes = nds
    /\ f_ops = ops
    /\ unwritable = unw
    /\ m_xmlPath = << >>
    /\ m_binPath = << >>
    /\ m_version = 0
    /\ m_custom_opsets = NoCustom
    /\ opened = << >>
    /\ xml_saved = FALSE
    /\ shape = NaturalShapes(ops)
    /\ pre_shape = shape
    /\ pc = "new"
    /\ exec_graph = FALSE
    /\ layer_ids = [n \in {} |-> 0]
    /\ unique_names = {}
    /\ has_dynamic_shapes = FALSE
    /\ resolved = FALSE
    /\ k = 0
    /\ layers = << >>
    /\ bin_data = << >>
    /\ discovered = << >>
    /\ edges = << >>

\* ---- graphs: every well-formed graph of up to MaxNodes nodes ----

\* node i takes its inputs from the nodes before it, so the graph is acyclic
Sources(i) == { In(j, x) : j \in 1..(i - 1), x \in 0..1 }

NodeChoices(i) ==
    { MkNode(t, << "c" >>, << >>, 1, StaticShape) : t \in {"Parameter", "Constant"} }
    \cup { MkNode(t, << "c" >>, << a >>, 1, StaticShape) :
             t \in {"Relu", "Result"}, a \in Sources(i) }
    \cup { MkNode("Split", << "c" >>, << a >>, 2, StaticShape) : a \in Sources(i) }
    \cup { MkNode("Add", << "c" >>, << a, b >>, 1, StaticShape) :
             a \in Sources(i), b \in Sources(i) }

\* the inputs of node i come from output ports that exist; results are sinks
PortsExist(nds, i) ==
    \A x \in 1..Len(nds[i].inputs) :
        LET src == nds[i].inputs[x]
        IN  nds[src.node].type # "Result" /\ src.index < nds[src.node].nout

Consumers(nds, j) ==
    { i \in DOMAIN nds : \E x \in 1..Len(nds[i].inputs) : nds[i].inputs[x].node = j }

\* every operation reaches a result
WellFormed(nds) ==
    /\ \E i \in DOMAIN nds : nds[i].type = "Result"
    /\ \A i \in DOMAIN nds :
          /\ PortsExist(nds, i)
          /\ nds[i].type \notin {"Result", "Parameter"} => Consumers(nds, i) # {}

RECURSIVE NodeSeqs(_)
NodeSeqs(n) ==
    IF n = 0 THEN { << >> }
    ELSE { g \in { Append(h, c) : h \in NodeSeqs(n - 1), c \in NodeChoices(n) } :
             PortsExist(g, n) }

Graphs(n) == { g \in NodeSeqs(n) : WellFormed(g) }

RECURSIVE OrdersFrom(_, _)
\* the ways to finish the order `placed` with producers before consumers
OrdersFrom(nds, placed) ==
    IF Len(placed) = Len(nds) THEN { placed }
    ELSE UNION { OrdersFrom(nds, Append(placed, n)) :
                 n \in { m \in (DOMAIN nds) \ Range(placed) :
                            \A x \in 1..Len(nds[m].inputs) :
                                nds[m].inputs[x].node \in Range(placed) } }

\* Function::get_ordered_ops: some order of the nodes with producers first
TopoOrders(nds) == OrdersFrom(nds, << >>)

InitGraph ==
    \E n \in 2..MaxNodes : \E g \in Graphs(n) : \E ops \in TopoOrders(g) :
        InitCall(AXml, << >>, IR_V10, NoCustom, DefaultBuiltin, g, ops, {})

SpecGraph == InitGraph /\ [][Next]_vars

\* ---- names: a chain Parameter -> Relu -> ... -> Result of up to MaxNamed nodes,
\* ---- every assignment of friendly names of up to MaxNameLen characters ----

NameAlphabet == {"c", "0"}

FriendlyNames == StringsUpTo(NameAlphabet, MaxNameLen)

ChainNode(i, n, name) ==
    IF i = 1 THEN MkNode("Parameter", name, << >>, 1, StaticShape)
    ELSE IF i = n THEN MkNode("Result", name, << In(i - 1, 0) >>, 1, StaticShape)
    ELSE MkNode("Relu", name, << In(i - 1, 0) >>, 1, StaticShape)

Chain(names) == [i \in 1..Len(names) |-> ChainNode(i, Len(names), names[i])]

InitNames ==
    \E n \in 2..MaxNamed : \E names \in [1..n -> FriendlyNames] :
        InitCall(AXml, << >>, IR_V10, NoCustom, DefaultBuiltin, Chain(names),
                 [i \in 1..n |-> i], {})

SpecNames == InitNames /\ [][Next]_vars

\* ---- op sets: Parameter -> MyOp -> Result; which built-in sets hold MyOp, and
\* ---- which custom registry entries exist and hold it, vary ----

OpsetBase == {"Parameter", "Result"}

RegistryKeys == { << "b" >>, << "a" >>, << "a", "b" >> }

Registries == UNION { [K -> { {}, {"MyOp"}, {"MyOp", "Parameter"} }] : K \in SUBSET RegistryKeys }

OpsetGraph ==
    << MkNode("Parameter", << "a" >>, << >>, 1, StaticShape),
       MkNode("MyOp", << "b" >>, << In(1, 0) >>, 1, StaticShape),
       MkNode("Result", << "c" >>, << In(2, 0) >>, 1, StaticShape) >>

InitOpsets ==
    \E has \in [1..NumBuiltinOpsets -> BOOLEAN] : \E cust \in Registries :
        InitCall(AXml, << >>, IR_V10, cust,
                 [i \in 1..NumBuiltinOpsets |->
                     IF has[i] THEN OpsetBase \cup {"MyOp"} ELSE OpsetBase],
                 OpsetGraph, << 1, 2, 3 >>, {})

SpecOpsets == InitOpsets /\ [][Next]_vars

\* ---- the pass: paths, format versions and unwritable files vary ----

XmlPaths ==
    { << >>,
      << "x", "m", "l" >>,
      << ".", "x", "m", "l" >>,
      << "a", ".", "x", "m" >>,
      << "a", ".", "x", "m", "l" >>,
      << "a", "a", "x", "m", "l" >>,
      << "a", ".", "b", "i", "n" >>,
      << "a", ".", "x", "m", "l", "x" >>,
      << "a", ".", "x", "m", "l", ".", "b" >>,
      << ".", "x", "m", "l", ".", "x", "m", "l" >> }

BinPaths == { << >>, << "b", ".", "b", "i", "n" >> }

\* a value of pass::Serialize::Version other than IR_V10
OtherVersion == IR_V10 + 1

InitPass ==
    \E xp \in XmlPaths : \E bp \in BinPaths : \E ver \in {IR_V10, OtherVersion} :
    \E unw \in SUBSET {xp, provide_bin_path(xp, bp)} :
        InitCall(xp, bp, ver, NoCustom, DefaultBuiltin,
                 Chain(<< << "a" >>, << "b" >>, << "c" >> >>), << 1, 2, 3 >>, unw)

SpecPass == InitPass /\ [][Next]_vars

\* ---- shapes: a producer (Parameter or Constant), an operation on it (Relu, or
\* ---- NonZero with a data-dependent output shape), a Result, and optionally a
\* ---- TensorIterator whose body is Parameter -> NonZero -> Result ----

DimPool == { Dimension(3), DimRange(1, 10), Dimension(Unbounded) }

RECURSIVE DimSeqs(_)
DimSeqs(r) == IF r = 0 THEN { << >> }
              ELSE DimSeqs(r - 1) \cup
                   { Append(s, d) : s \in { t \in DimSeqs(r - 1) : Len(t) = r - 1 }, d \in DimPool }

\* every shape of rank at most MaxRank over DimPool, and the dynamic rank
ShapePool == { DynamicRank } \cup { ShapeOf(ds) : ds \in DimSeqs(MaxRank) }

\* the shapes of rank 1 over DimPool, and the dynamic rank
SmallShapes == { DynamicRank } \cup { ShapeOf(<< d >>) : d \in DimPool }

FoldedShape == ShapeOf(<< Dimension(2) >>)

Producers ==
    { MkNode("Parameter", << "p" >>, << >>, 1, s) : s \in ShapePool }
    \cup { MkNode("Constant", << "p" >>, << >>, 1, StaticShape) }

\* constant_fold can succeed only on an operation all of whose inputs are constants
Operations(producer) ==
    LET ops == { MkNode("Relu", << "o" >>, << In(1, 0) >>, 1, StaticShape) }
               \cup { MkNode("NonZero", << "o" >>, << In(1, 0) >>, 1, s) : s \in SmallShapes }
    IN  ops \cup
        (IF producer.type # "Constant" THEN {}
         ELSE { [o EXCEPT !.can_fold = TRUE,
                          !.fold_shape = IF o.type = "Relu" THEN producer.declared
                                         ELSE FoldedShape] : o \in ops })

\* nodes 4..8: the TensorIterator on the producer, its body 5 -> 6 -> 7, its Result
Iterator(s) ==
    << [MkNode("TensorIterator", << "t" >>, << In(1, 0) >>, 1, StaticShape)
          EXCEPT !.body = << 5, 6, 7 >>],
       MkNode("Parameter", << "p" >>, << >>, 1, StaticShape),
       MkNode("NonZero", << "o" >>, << In(5, 0) >>, 1, s),
       MkNode("Result", << "r" >>, << In(6, 0) >>, 1, StaticShape),
       MkNode("Result", << "r" >>, << In(4, 0) >>, 1, StaticShape) >>

InitShapes ==
    \E p \in Producers : \E o \in Operations(p) :
        LET base == << p, o, MkNode("Result", << "r" >>, << In(2, 0) >>, 1, StaticShape) >>
        IN  \/ InitCall(AXml, << >>, IR_V10, NoCustom, DefaultBuiltin, base, << 1, 2, 3 >>, {})
            \/ \E s \in SmallShapes :
                  InitCall(AXml, << >>, IR_V10, NoCustom, DefaultBuiltin,
                           base \o Iterator(s), << 1, 2, 3, 4, 8 >>, {})

SpecShapes == InitShapes /\ [][Next]_vars

\* ---- binary payloads: two producers -> Add -> Result; the producers' type,
\* ---- attribute lists and buffers vary ----

Bytes == {7, 9}

RECURSIVE Buffers(_)
\* the byte sequences of length at most n
Buffers(n) == IF n = 0 THEN { << >> }
              ELSE Buffers(n - 1) \cup
                   { Append(b, x) : b \in { c \in Buffers(n - 1) : Len(c) = n - 1 }, x \in Bytes }

AttrLists(buf) ==
    { << >>,
      ConstAttrs(buf),
      << Attr("value", "buffer", << >>, << >>, buf),
         Attr("element_type", "string", F32, << >>, << >>) >>,
      << Attr("data", "buffer", << >>, << >>, buf) >>,
      << Attr("value", "voidptr", << >>, << >>, buf) >>,
      << Attr("value", "void", << >>, << >>, buf),
         Attr("axes", "vector", << >>, << <<"0">>, <<"1">> >>, << >>) >> }

BinProducers ==
    { [MkNode(t, << "p" >>, << >>, 1, StaticShape) EXCEPT !.attrs = al] :
        t \in {"Constant", "MyConst"},
        al \in UNION { AttrLists(buf) : buf \in Buffers(MaxBufLen) } }

InitBin ==
    \E p \in BinProducers : \E q \in BinProducers :
        InitCall(AXml, << >>, IR_V10, NoCustom, DefaultBuiltin,
                 << p, q, MkNode("Add", << "s" >>, << In(1, 0), In(2, 0) >>, 1, StaticShape),
                    MkNode("Result", << "r" >>, << In(3, 0) >>, 1, StaticShape) >>,
                 << 1, 2, 3, 4 >>, {})

SpecBin == InitBin /\ [][Next]_vars

\* ---- execution graphs: Constant -> op -> Result; the runtime info of the
\* ---- Constant and of the op varies, and the op may lack visitor support ----

\* a std::string variant under the key, a variant of another type, or no entry
RtEntry(key, values) ==
    { << >>, << [key |-> key, is_string |-> FALSE, text |-> ""] >> } \cup
    { << [key |-> key, is_string |-> TRUE, text |-> v] >> : v \in values }

\* the rt_info maps, entries in the key order of std::map
RtMaps ==
    { a \o b \o c : a \in RtEntry("execTimeMcs", {"5"}),
                    b \in RtEntry("layerType", {"Relu", "Convolution"}),
                    c \in RtEntry("primitiveType", {"jit"}) }

ExecOps ==
    { [MkNode(t, << "o" >>, << In(1, 0) >>, 1, StaticShape) EXCEPT !.visitable = v] :
        t \in {"Relu"}, v \in BOOLEAN }

InitExec ==
    \E r1 \in RtMaps : \E r2 \in RtMaps : \E op \in ExecOps :
        InitCall(AXml, << >>, IR_V10, NoCustom, DefaultBuiltin,
                 << [MkNode("Constant", << "c" >>, << >>, 1, StaticShape)
                        EXCEPT !.rt_info = r1],
                    [op EXCEPT !.rt_info = r2],
                    MkNode("Result", << "r" >>, << In(2, 0) >>, 1, StaticShape) >>,
                 << 1, 2, 3 >>, {})

SpecExec == InitExec /\ [][Next]_vars

\* ---- every family together ----

Init == InitGraph \/ InitNames \/ InitOpsets \/ InitPass \/ InitShapes \/ InitBin \/ InitExec

Spec == Init /\ [][Next]_vars

----------------------------------------------------------------------------
(* Properties of the layer ids and the edges (checked under SpecGraph) *)

IrWritten == pc \in {"irv10_done", "done"}

\* the position of node n in get_ordered_ops, i.e. the index of its <layer>
PosOf(n) == CHOOSE i \in 1..Len(f_ops) : f_ops[i] = n

LayerOf(n) == layers[PosOf(n)]

\* C2: the layer ids written for a graph of N nodes are a permutation of
\* 0..N-1 (one layer per node, the id that create_layer_ids gave it), and every
\* edge goes from a smaller layer id to a larger one.
C2_LayerIdsPermutationAndOrder ==
    IrWritten =>
        /\ Len(layers) = Len(f_ops)
        /\ { layers[i].id : i \in 1..Len(layers) } = 0..(Len(f_ops) - 1)
        /\ \A i \in 1..Len(layers) : layers[i].id = layer_ids[f_ops[i]]
        /\ \A x \in 1..Len(edges) : edges[x].from_layer < edges[x].to_layer

\* a finished call on a graph whose ordered ops differ from the order in which
\* the nodes were created, with at least two edges
C2_Witness ==
    /\ pc = "done"
    /\ Len(edges) >= 2
    /\ \E i \in 1..Len(f_ops) : f_ops[i] # i

\* the edge that connects input port i of node n, read off the emitted records
RecordedEdge(n, i) ==
    LET src == nodes[n].inputs[i]
    IN  [from_layer |-> LayerOf(src.node).id,
         from_port  |-> LayerOf(src.node).output[src.index + 1].id,
         to_layer   |-> LayerOf(n).id,
         to_port    |-> LayerOf(n).input[i].id]

RECURSIVE SumInputs(_)
SumInputs(ops) == IF ops = << >> THEN 0
                  ELSE (IF is_parameter(Head(ops)) THEN 0 ELSE get_input_size(Head(ops)))
                       + SumInputs(Tail(ops))

\* C3: every edge refers to ports of the emitted layers: for each input port of
\* each non-Parameter node there is exactly one edge, whose from-port is the id
\* the source layer's record gives that output port and whose to-port is the id
\* the destination layer's record gives that input port; nothing else is emitted.
C3_EdgesReferToEmittedPorts ==
    IrWritten =>
        /\ Len(edges) = SumInputs(f_ops)
        /\ \A n \in Range(f_ops) : ~is_parameter(n) =>
              \A i \in 1..get_input_size(n) :
                 /\ Len(LayerOf(n).input) >= i
                 /\ Len(LayerOf(nodes[n].inputs[i].node).output) >= nodes[n].inputs[i].index + 1
                 /\ Cardinality({ x \in 1..Len(edges) : edges[x] = RecordedEdge(n, i) }) = 1

\* a finished call with an edge that leaves a second output port of a node that
\* has inputs, and an edge that enters a second input port
C3_Witness ==
    /\ pc = "done"
    /\ \E x \in 1..Len(edges) : edges[x].from_port >= 2
    /\ \E x \in 1..Len(edges) : edges[x].to_port >= 1

RECURSIVE IsAscending(_)
IsAscending(es) ==
    Len(es) <= 1 \/ (es[1].from_layer <= es[2].from_layer /\ IsAscending(Tail(es)))

Count(es, e) == Cardinality({ x \in 1..Len(es) : es[x] = e })

\* the edges of one from-layer, in the order they have in es
OfLayer(es, l) == SelectSeq(es, LAMBDA e : e.from_layer = l)

\* C6 as claimed: the returned list is ascending in from-layer and edges of one
\* from-layer keep their discovery order.
C6_StableOrder ==
    IrWritten =>
        /\ IsAscending(edges)
        /\ \A l \in 0..(Len(f_ops) - 1) : OfLayer(edges, l) = OfLayer(discovered, l)

\* C6 as amended: the returned list is ascending in from-layer and holds exactly
\* the discovered edges, each as often as it was discovered.
C6_AscendingPermutation ==
    IrWritten =>
        /\ IsAscending(edges)
        /\ Len(edges) = Len(discovered)
        /\ \A x \in 1..Len(discovered) : Count(edges, discovered[x]) = Count(discovered, discovered[x])

\* a finished call where discovery order was not ascending and two edges share
\* a from-layer
C6_Witness ==
    /\ pc = "done"
    /\ ~IsAscending(discovered)
    /\ \E x, y \in 1..Len(edges) : x # y /\ edges[x].from_layer = edges[y].from_layer

----------------------------------------------------------------------------
(* Properties of the persisted names (checked under SpecNames) *)

NamesBefore(i) == { layers[j].name : j \in 1..(i - 1) }

\* C1: within one call the names written are pairwise distinct; a friendly name
\* not written earlier in the call is written unchanged, and otherwise the name
\* is the friendly name followed by the smallest integer s >= 0 for which that
\* concatenation has not been written yet.
C1_UniqueNames ==
    \A i \in 1..Len(layers) :
        LET cand == nodes[f_ops[i]].friendly_name
            name == layers[i].name
        IN  /\ name \notin NamesBefore(i)
            /\ cand \notin NamesBefore(i) => name = cand
            /\ cand \in NamesBefore(i) =>
                  \E s \in 0..Len(layers) :
                     /\ name = cand \o to_string(s)
                     /\ \A t \in 0..(s - 1) : cand \o to_string(t) \in NamesBefore(i)

\* a finished call in which a friendly name that ends in a digit collided with
\* an earlier name and with its own first suffixed form, and got suffix 1
C1_Witness ==
    /\ pc = "done"
    /\ \E i \in 1..Len(layers) :
          LET cand == nodes[f_ops[i]].friendly_name
          IN  /\ cand[Len(cand)] = "0"
              /\ layers[i].name = cand \o << "1" >>

----------------------------------------------------------------------------
(* Properties of the op-set label (checked under SpecOpsets) *)

BuiltinsWith(type) == { i \in 1..NumBuiltinOpsets : type \in builtin_opsets[i] }

CustomWith(type) == { key \in DOMAIN custom_opsets : type \in custom_opsets[key] }

\* C9: the version label of a layer is "opset<i>" for the oldest built-in set i
\* that contains the node's type, whatever the custom registry holds; with no
\* such built-in set it is the smallest key, in the registry's key order, of a
\* custom entry that contains the type; with none it is "experimental".
C9_OpsetName ==
    \A i \in 1..Len(layers) :
        LET type == nodes[f_ops[i]].type
            ver  == layers[i].version
        IN  layers[i].has_version =>
              /\ BuiltinsWith(type) # {} =>
                    ver = OpsetPrefix \o to_string(Min(BuiltinsWith(type)))
              /\ (BuiltinsWith(type) = {} /\ CustomWith(type) # {}) =>
                    /\ ver \in CustomWith(type)
                    /\ \A other \in CustomWith(type) \ {ver} : StrLess(ver, other)
              /\ (BuiltinsWith(type) = {} /\ CustomWith(type) = {}) => ver = Experimental

\* a finished call with a layer whose type is in the third built-in set, in no
\* older one, and in a custom registry entry too
C9_Witness ==
    /\ pc = "done"
    /\ \E i \in 1..Len(layers) :
          LET type == nodes[f_ops[i]].type
          IN  /\ Min(BuiltinsWith(type) \cup {NumBuiltinOpsets + 1}) = 3
              /\ CustomWith(type) # {}
              /\ layers[i].version = OpsetPrefix \o << "3" >>

\* a finished call with a layer whose type is in no built-in set and in two
\* custom registry entries
C9_WitnessCustom ==
    /\ pc = "done"
    /\ \E i \in 1..Len(layers) :
          LET type == nodes[f_ops[i]].type
          IN  BuiltinsWith(type) = {} /\ Cardinality(CustomWith(type)) >= 2

----------------------------------------------------------------------------
(* Properties of the precondition errors (checked under SpecPass) *)

PathAcceptable(path) ==
    /\ Len(path) > Len(XmlExt)
    /\ SubSeq(path, Len(path) - Len(XmlExt) + 1, Len(path)) = XmlExt

GraphUntouched == shape = pre_shape /\ ~resolved /\ layers = << >>

\* the part of C5 about the path: a path that is not longer than ".xml" or does
\* not end in ".xml" is rejected by the constructor, with no file opened and
\* the graph untouched
C5_PathRejectedByConstructor ==
    /\ ~PathAcceptable(xmlPath) => pc \in {"new", "ctor_failed"}
    /\ PathAcceptable(xmlPath) => pc # "ctor_failed"
    /\ pc = "ctor_failed" => opened = << >> /\ GraphUntouched

\* C5: precondition errors are raised before any I/O or mutation: a bad xml path
\* is rejected by the constructor and an unsupported format version by
\* run_on_function, both before any output file is opened or created and before
\* the graph is touched.
C5_PreconditionErrorsBeforeIO ==
    /\ C5_PathRejectedByConstructor
    /\ (pc = "failed" /\ m_version # IR_V10) => opened = << >> /\ GraphUntouched

----------------------------------------------------------------------------
(* Properties of the shapes (checked under SpecShapes) *)

CallEnded == pc \in {"ctor_failed", "failed", "done"}

\* C4: after a serialization call every node of the graph has the output
\* shapes it had before the call.
C4_ShapesRestored ==
    CallEnded => \A n \in Range(f_ops) : shape[n] = pre_shape[n]

\* the part of C4 that the code keeps: a call that returns normally leaves the
\* shapes of the graph's nodes as they were
C4_RestoredOnReturn ==
    pc \in {"irv10_done", "done"} => \A n \in Range(f_ops) : shape[n] = pre_shape[n]

\* the shapes are the temporary ones: resolved, and not yet moved back
Substituted == resolved /\ pc \in {"layers", "failed"}

\* what upper-bound substitution should make of an inferred shape
Bounded(d) == IF dim_is_static(d) THEN d
              ELSE IF d.hi # Unbounded THEN [lo |-> d.hi, hi |-> d.hi]
              ELSE d

BoundedShape(s) == IF s.rank_dynamic THEN s
                   ELSE [rank_dynamic |-> FALSE, dims |-> [j \in 1..Len(s.dims) |-> Bounded(s.dims[j])]]

PortDims(s) == [j \in 1..Len(s.dims) |-> to_string(s.dims[j].lo)]

\* C7: where constant folding of a node fails, every dynamic dimension of its
\* inferred outputs is replaced by its upper bound and a dimension without one
\* stays dynamic; every port ever written carries the dimensions of a static
\* shape, the substituted bounds among them; and the layer loop completes only
\* if no node is left with a dynamic output, so a dimension without an upper
\* bound makes the call fail.
C7_UpperBoundOrFail ==
    Substituted =>
        /\ has_dynamic_shapes =>
              \A n \in Range(f_ops) : ~constant_fold(n) =>
                 \A o \in 1..get_output_size(n) :
                    shape[n][o] = BoundedShape(infer_outputs(shape, n)[o])
        /\ \A i \in 1..Len(layers) :
              /\ \A x \in 1..Len(layers[i].input) :
                    /\ shape_is_static(input_partial_shape(shape, f_ops[i], x))
                    /\ layers[i].input[x].dims = PortDims(input_partial_shape(shape, f_ops[i], x))
              /\ \A o \in 1..Len(layers[i].output) :
                    /\ shape_is_static(shape[f_ops[i]][o])
                    /\ layers[i].output[o].dims = PortDims(shape[f_ops[i]][o])
        /\ (pc = "layers" /\ k = Len(f_ops)) =>
              \A n \in Range(f_ops) : ~is_dynamic(shape, n)

\* a finished call that wrote an output port with the dimension 10 for a node
\* whose folding failed and whose own output dimension was dynamic, bound 10
C7_Witness ==
    /\ pc = "done"
    /\ \E i \in 1..Len(layers) :
          /\ ~constant_fold(f_ops[i])
          /\ Len(layers[i].output) = 1
          /\ pre_shape[f_ops[i]][1] = ShapeOf(<< DimRange(1, 10) >>)
          /\ layers[i].output[1].dims = << << "1", "0" >> >>

RECURSIVE NestedOps(_)
\* the nodes of the nested functions of the given ops, recursively
NestedOps(ops) ==
    IF ops = << >> THEN {}
    ELSE Range(nodes[Head(ops)].body) \cup NestedOps(nodes[Head(ops)].body)
         \cup NestedOps(Tail(ops))

HasBound(s) == ~s.rank_dynamic /\ \A j \in 1..Len(s.dims) : s.dims[j].hi # Unbounded

\* C10: resolve_dynamic_shapes returns false, mutating nothing, exactly when no
\* node of the graph or of a nested sub-graph has a dynamic output; otherwise
\* it returns true and the nested sub-graphs are resolved to static shapes too.
C10_ResolveSeesNestedGraphs ==
    (resolved /\ pc = "layers") =>
        /\ has_dynamic_shapes =
              (\E n \in Range(f_ops) \cup NestedOps(f_ops) : is_dynamic(pre_shape, n))
        /\ ~has_dynamic_shapes => shape = pre_shape
        /\ has_dynamic_shapes =>
              \A n \in NestedOps(f_ops) : \A o \in 1..get_output_size(n) :
                 HasBound(pre_shape[n][o]) => shape_is_static(shape[n][o])

\* the part of C10 that the code keeps: false, with nothing mutated, exactly
\* when no node of the graph itself has a dynamic output
C10_ResolveTopLevel ==
    (resolved /\ pc = "layers") =>
        /\ has_dynamic_shapes = (\E n \in Range(f_ops) : is_dynamic(pre_shape, n))
        /\ ~has_dynamic_shapes => shape = pre_shape

----------------------------------------------------------------------------
(* Properties of the binary payloads (checked under SpecBin) *)

ValueBuffers(n) ==
    SelectSeq(nodes[n].attrs, LAMBDA a : a.kind = "buffer" /\ a.name = "value")

\* a Const node with a buffer-valued "value" attribute
IsConstWithBuffer(n) ==
    translate_type_name(nodes[n].type) = "Const" /\ ValueBuffers(n) # << >>

\* the bytes node n is to contribute to the sink
Payload(n) == IF IsConstWithBuffer(n) THEN ValueBuffers(n)[1].buf ELSE << >>

RECURSIVE PayloadBytes(_)
\* the number of payload bytes of the nodes ops, in order
PayloadBytes(ops) == IF ops = << >> THEN 0
                     ELSE Len(Payload(Head(ops))) + PayloadBytes(Tail(ops))

ValuesOf(data, name) ==
    LET hits == SelectSeq(data, LAMBDA fld : fld.name = name)
    IN  [x \in 1..Len(hits) |-> hits[x].value]

\* C8: outside execution-statistics mode, the layer of a Const node with a
\* buffer-valued "value" attribute records as offset the number of payload
\* bytes of the layers before it and as size the buffer's length, and the
\* sink holds the buffer at [offset, offset + size); any other layer records
\* neither field; the sink holds the payloads and nothing else.
C8_OffsetsLocatePayloads ==
    ~exec_graph =>
        /\ \A i \in 1..Len(layers) :
              LET n   == f_ops[i]
                  off == PayloadBytes(SubSeq(f_ops, 1, i - 1))
              IN  IF IsConstWithBuffer(n)
                  THEN /\ ValuesOf(layers[i].data, "offset") = << to_string(off) >>
                       /\ ValuesOf(layers[i].data, "size") = << to_string(Len(Payload(n))) >>
                       /\ off + Len(Payload(n)) <= Len(bin_data)
                       /\ SubSeq(bin_data, off + 1, off + Len(Payload(n))) = Payload(n)
                  ELSE /\ ValuesOf(layers[i].data, "offset") = << >>
                       /\ ValuesOf(layers[i].data, "size") = << >>
        /\ Len(bin_data) = PayloadBytes(SubSeq(f_ops, 1, Len(layers)))

\* a finished call with two Const payloads of different bytes, the second at a
\* positive offset, beside a buffer attribute that is not a Const's "value"
C8_Witness ==
    /\ pc = "done"
    /\ IsConstWithBuffer(1) /\ IsConstWithBuffer(2)
    /\ Payload(1) # << >> /\ Payload(2) # << >> /\ Payload(1) # Payload(2)
    /\ ValuesOf(layers[2].data, "offset") = << to_string(Len(Payload(1))) >>

\* a finished call with a buffer attribute that is ignored: on a node that is
\* no Const, or under another attribute name
C8_WitnessIgnored ==
    /\ pc = "done"
    /\ \E n \in 1..2 :
          /\ ~IsConstWithBuffer(n)
          /\ \E x \in 1..Len(nodes[n].attrs) :
                nodes[n].attrs[x].kind = "buffer" /\ nodes[n].attrs[x].buf # << >>


----------------------------------------------------------------------------
(* Properties of the execution-graph mode (checked under SpecExec) *)

\* some node of the graph carries the performance counter
ExecMode ==
    \E n \in Range(f_ops) :
        \E j \in 1..Len(nodes[n].rt_info) : nodes[n].rt_info[j].key = "execTimeMcs"

\* the std::string entries of node n's runtime info other than "layerType"
StringEntries(n) ==
    SelectSeq(nodes[n].rt_info, LAMBDA p : p.is_string /\ p.key # "layerType")

RtFields(n) ==
    [j \in 1..Len(StringEntries(n)) |->
        [name |-> StringEntries(n)[j].key, value |-> StringEntries(n)[j].text]]

\* the std::string values stored under "layerType" (a map: at most one)
LayerTypes(n) ==
    { nodes[n].rt_info[j].text :
        j \in { x \in 1..Len(nodes[n].rt_info) :
                  nodes[n].rt_info[x].key = "layerType" /\ nodes[n].rt_info[x].is_string } }

\* the type name that is handed to translate_type_name in execution-graph mode
ExecTypeName(n) ==
    IF LayerTypes(n) = {} THEN nodes[n].type ELSE CHOOSE t \in LayerTypes(n) : TRUE

C11_WitnessStandard ==
    /\ pc = "done"
    /\ ~ExecMode
    /\ LayerTypes(1) # {} /\ LayerTypes(2) # {}
    /\ layers[1].type = "Const"
    /\ bin_data = << 7 >>
    /\ \A i \in 1..Len(layers) : layers[i].has_version
============================================================================
